---- MODULE Spec2Model ----
(***************************************************************************)
(* Model of fetch_all_products.py: four vendor scrapers (MikroTik,         *)
(* Ubiquiti, Cambium, Mimosa), the runner run_all that isolates their      *)
(* failures, deduplicates globally and exports CSV files, and the command  *)
(* line entry point.                                                       *)
(*                                                                         *)
(* Text is a sequence of one-character strings, so that lower(),           *)
(* substring tests, whitespace normalisation and the dedup keys are        *)
(* computed rather than assumed.  A URL or href is a sequence of lexical   *)
(* tokens ("https:", "//", host, "/", segment, ...), so that startswith,   *)
(* count('/') and urljoin are computed on its structure.                   *)
(***************************************************************************)
EXTENDS Integers, Sequences, FiniteSets, TLC

(***************************************************************************)
(* Bounds.                                                                 *)
(***************************************************************************)
\* each page loop is followed over the first MaxPages pages of its list
MaxPages == 2
\* longest model name drawn for the classifier on its own
MaxNameLen == 4

(***************************************************************************)
(* Characters and text.                                                    *)
(***************************************************************************)
LowerMap ==
  [A |-> "a", B |-> "b", C |-> "c", E |-> "e", F |-> "f", G |-> "g",
   H |-> "h", I |-> "i", K |-> "k", M |-> "m", P |-> "p", R |-> "r",
   S |-> "s", T |-> "t", U |-> "u", W |-> "w"]

LowerChar(c) == IF c \in DOMAIN LowerMap THEN LowerMap[c] ELSE c

\* str.lower()
lower(s) == [i \in 1..Len(s) |-> LowerChar(s[i])]

\* characters matched by the regular expression class \s
Whitespace == {" ", "\n", "\t"}

\* characters at which str.splitlines() breaks a line
LineBreaks == {"\n"}

LowerAlnum ==
  {"a","b","c","d","e","f","g","h","i","j","k","l","m","n","o","p","q","r",
   "s","t","u","v","w","x","y","z","0","1","2","3","4","5","6","7","8","9"}

Alnum == LowerAlnum \cup DOMAIN LowerMap

\* Python's  k in m  for strings
Contains(m, k) ==
  \E i \in 0..(Len(m) - Len(k)) : SubSeq(m, i + 1, i + Len(k)) = k

\* re.sub(r'\s+', ' ', s): of each run of whitespace one character is kept,
\* as a space
CollapseWs(s) ==
  LET marked == [i \in 1..Len(s) |->
                   [c |-> IF s[i] \in Whitespace THEN " " ELSE s[i],
                    keep |-> \/ s[i] \notin Whitespace
                             \/ i = 1
                             \/ s[i - 1] \notin Whitespace]]
      kept == SelectSeq(marked, LAMBDA m : m.keep)
  IN [i \in 1..Len(kept) |-> kept[i].c]

\* str.strip() and str.strip(chars)
strip(s, cs) ==
  LET body == {i \in 1..Len(s) : s[i] \notin cs}
  IN IF body = {} THEN <<>>
     ELSE SubSeq(s, CHOOSE i \in body : \A j \in body : i <= j,
                    CHOOSE i \in body : \A j \in body : j <= i)

\* a normaliser that forgets to trim
clean_text_nostrip(s) == CollapseWs(s)

\* clean_text; every call site passes the str returned by get_text()
clean_text(s) == strip(CollapseWs(s), Whitespace)

\* text.splitlines()[0] for a non-empty text
FirstLine(s) ==
  LET breaks == {i \in 1..Len(s) : s[i] \in LineBreaks}
  IN IF breaks = {} THEN s
     ELSE SubSeq(s, 1, (CHOOSE i \in breaks : \A j \in breaks : i <= j) - 1)

RECURSIVE Concat(_)
\* concatenation of a sequence of sequences (nested for-loops appending)
Concat(ss) == IF ss = <<>> THEN <<>> ELSE Head(ss) \o Concat(Tail(ss))

Min(a, b) == IF a < b THEN a ELSE b

(***************************************************************************)
(* URLs and hrefs as token sequences.                                      *)
(***************************************************************************)
\* the value of an absent parent anchor / absent href attribute
None == <<"None">>

Schemes == {"https:", "http:"}

HasScheme(u) == u # <<>> /\ u[1] \in Schemes

\* path segments that begin with the letters "product"
ProductSegs == {"product", "products"}

\* path segments that begin with the letters "group"
GroupSegs == {"group"}

\* lower-cased path segments that contain the given word
SegsWith(word) ==
  CASE word = "unifi" -> {"unifi", "unifi-ap"}
    [] word = "airmax" -> {"airmax"}
    [] word = "edge" -> {"edge", "edgerouter"}

SegLowerMap == [UniFi |-> "unifi", EdgeRouter |-> "edgerouter", airMAX |-> "airmax"]

SegLower(t) == IF t \in DOMAIN SegLowerMap THEN SegLowerMap[t] ELSE t

\* href.startswith('/')
StartsWithSlash(h) == h # <<>> /\ h[1] \in {"/", "//"}

\* href.startswith('/product')
StartsWithProduct(h) == Len(h) >= 2 /\ h[1] = "/" /\ h[2] \in ProductSegs

\* href.startswith('/products/')
StartsWithProducts(h) ==
  Len(h) >= 3 /\ h[1] = "/" /\ h[2] = "products" /\ h[3] = "/"

\* href.startswith('/products/group')
StartsWithProductsGroup(h) ==
  Len(h) >= 4 /\ StartsWithProducts(h) /\ h[4] \in GroupSegs

\* href.count('/')
CountSlash(h) ==
  Cardinality({i \in 1..Len(h) : h[i] = "/"})
    + 2 * Cardinality({i \in 1..Len(h) : h[i] = "//"})

\* word in href.lower()
HrefHasWord(h, word) == \E i \in 1..Len(h) : SegLower(h[i]) \in SegsWith(word)

\* '/product' in href
HrefHasSlashProduct(h) ==
  \E i \in 1..(Len(h) - 1) : h[i] \in {"/", "//"} /\ h[i + 1] \in ProductSegs

\* index of the last "/" of the path of an absolute URL, 0 if it has no path
LastSlash(u) ==
  LET is == {i \in 4..Len(u) : u[i] = "/"}
  IN IF is = {} THEN 0 ELSE CHOOSE i \in is : \A j \in is : j <= i

\* requests.compat.urljoin(base, href) for an absolute base
urljoin(base, href) ==
  IF href = <<>> THEN base
  ELSE IF HasScheme(href) THEN href
  ELSE IF href[1] = "//" THEN <<base[1]>> \o href
  ELSE IF href[1] = "/" THEN SubSeq(base, 1, 3) \o href
  ELSE IF LastSlash(base) = 0 THEN base \o <<"/">> \o href
  ELSE SubSeq(base, 1, LastSlash(base)) \o href

(***************************************************************************)
(* Pages: a page is the sequence of its elements in document order.  An    *)
(* element records the selectors it matches, its get_text(), the href of   *)
(* its nearest enclosing anchor with an href (None if there is none) and   *)
(* its own href attribute (None unless it is an anchor with an href).      *)
(***************************************************************************)
El(m, t, p, h) == [matches |-> m, text |-> t, parent |-> p, href |-> h]

\* soup.select(selector group) in document order
Select(page, sels) == SelectSeq(page, LAMBDA e : e.matches \cap sels # {})

\* s.select('a[href]') / soup.find_all('a', href=True)
Anchors(page) == SelectSeq(page, LAMBDA e : e.href # None)

Row(c, b, m, u) == [category |-> c, brand |-> b, model |-> m, source_url |-> u]

(***************************************************************************)
(* Dedup passes.                                                           *)
(***************************************************************************)
\* a key that forgets to lower-case the model
LocalKeyCased(r) == <<lower(r.brand), r.model>>

\* key = (r['brand'].lower(), r['model'].lower())
LocalKey(r) == <<lower(r.brand), lower(r.model)>>

RECURSIVE DedupeFrom(_, _, _)
DedupeFrom(rows, seen, unique) ==
  IF rows = <<>> THEN unique
  ELSE LET r == Head(rows)
           key == LocalKey(r)
       IN IF key \in seen
          THEN DedupeFrom(Tail(rows), seen, unique)
          ELSE DedupeFrom(Tail(rows), seen \cup {key}, Append(unique, r))

\* the adapter-local pass: seen = set(); unique = []; for r in rows: ...
dedupe(rows) == DedupeFrom(rows, {}, <<>>)

\* characters kept by re.sub(r'[^a-z0-9\(\)\- ]', '', ...)
KeyChars == LowerAlnum \cup {"(", ")", "-", " "}

\* key of the global pass in run_all
GlobalKey(r) ==
  <<lower(strip(r.brand, Whitespace)),
    SelectSeq(lower(strip(r.model, Whitespace)), LAMBDA c : c \in KeyChars)>>

RECURSIVE GlobalDedupeFrom(_, _, _)
GlobalDedupeFrom(rows, seen, unique) ==
  IF rows = <<>> THEN unique
  ELSE LET r == Head(rows)
           key == GlobalKey(r)
       IN IF key \in seen
          THEN GlobalDedupeFrom(Tail(rows), seen, unique)
          ELSE GlobalDedupeFrom(Tail(rows), seen \cup {key}, Append(unique, r))

\* the global pass of run_all
global_dedupe(rows) == GlobalDedupeFrom(rows, {}, <<>>)

(***************************************************************************)
(* MikroTik category guess.                                                *)
(***************************************************************************)
SwitchKeywords ==
  << <<"s","w","i","t","c","h">>, <<"c","r","s">>, <<"s","w","i","t","c","h">>,
     <<"s","f","p">>, <<"s","g">> >>

ApKeywords ==
  << <<"h","a","p">>, <<"w","A","P">>, <<"c","a","p">>, <<"a","p">>,
     <<"w","i","r","e","l","e","s","s">>, <<"n","a","n","o">>,
     <<"s","x","t">>, <<"l","b","e">> >>

PtpKeywords ==
  << <<"p","t","p">>, <<"p","t","m","p">>,
     <<"b","a","c","k","h","a","u","l">>, <<"c","5">>, <<"b","5">> >>

\* any(k in m for k in kws)
AnyIn(m, kws) == \E i \in 1..Len(kws) : Contains(m, kws[i])

\* a classifier that tests the access-point keywords first
classify_ap_first(model) ==
  LET m == lower(model)
  IN IF AnyIn(m, ApKeywords) THEN "ap"
     ELSE IF AnyIn(m, SwitchKeywords) THEN "switch"
     ELSE IF AnyIn(m, PtpKeywords) THEN "ptp"
     ELSE "router"

\* the if/elif chain of fetch_mikrotik
classify(model) ==
  LET m == lower(model)
  IN IF AnyIn(m, SwitchKeywords) THEN "switch"
     ELSE IF AnyIn(m, ApKeywords) THEN "ap"
     ELSE IF AnyIn(m, PtpKeywords) THEN "ptp"
     ELSE "router"

(***************************************************************************)
(* Texts served by the modelled web.                                       *)
(***************************************************************************)
T_CRS326 == <<"C","R","S","3","2","6">>
T_crs326 == <<"c","r","s","3","2","6">>
T_hAP_ac2 == <<"h","A","P"," ","a","c","²">>
T_hAP_ac == <<"h","A","P"," ","a","c">>
T_wAP == <<"w","A","P">>
T_SG == <<"S","G">>
T_UniFi_AP == <<"U","n","i","F","i"," ","A","P">>
T_unifi_ap == <<"u","n","i","f","i"," ","a","p">>
T_ER == <<"E","R","-","4">>
T_About == <<"A","b","o","u","t">>
T_PTP == <<"P","T","P"," ","6","7","0">>
T_ePMP == <<"e","P","M","P">>
T_C5 == <<"C","5">>
T_c5 == <<"c","5">>
T_B5 == <<"B","5">>
\* a text longer than every length ceiling of the adapters
T_Long == [i \in 1..200 |-> "x"]

MkBrand == <<"M","i","k","r","o","T","i","k">>
UbBrand == <<"U","b","i","q","u","i","t","i">>
CbBrand == <<"C","a","m","b","i","u","m">>
MmBrand == <<"M","i","m","o","s","a">>

\* the status and body of one fetch: the request raises, the parser raises,
\* or the page is parsed
Resp(st, pg) == [status |-> st, page |-> pg]

Failures == {Resp("fetch_error", "none"), Resp("parse_error", "none")}

(***************************************************************************)
(* fetch_mikrotik                                                          *)
(***************************************************************************)
MkBase == <<"https:", "//", "mikrotik.com">>

MkStartUrl == MkBase \o <<"/", "products">>

MkGroup(slug) == MkBase \o <<"/", "products", "/", "group", "/", slug>>

group_pages ==
  << MkGroup("ethernet-routers"), MkGroup("switches"),
     MkGroup("wireless-systems"), MkGroup("lte-5g"),
     MkGroup("60-ghz-products"), MkGroup("routerboard") >>

\* the candidate URLs in the order of Python's string comparison
MkUrlOrder ==
  << MkBase \o <<"/", "product", "/", "crs326">>,
     MkBase \o <<"/", "products">>,
     MkGroup("60-ghz-products"), MkGroup("ethernet-routers"),
     MkGroup("lte-5g"), MkGroup("routerboard"), MkGroup("switches"),
     MkGroup("wireless-systems") >>

\* sorted(links)
MkSorted(links) == SelectSeq(MkUrlOrder, LAMBDA u : u \in links)

\* the links gathered from the main page, plus the known group pages
MkLinks(page) ==
  { urljoin(MkBase, Anchors(page)[i].href) :
      i \in { j \in 1..Len(Anchors(page)) :
                LET href == Anchors(page)[j].href
                IN \/ StartsWithProduct(href)
                   \/ StartsWithProductsGroup(href)
                   \/ StartsWithProducts(href) } }
    \cup { group_pages[i] : i \in 1..Len(group_pages) }

sel_candidates ==
  <<".product-title", ".product-card__title", "h3", "h4", ".title", ".product-name">>

MkCardSelectors == {".product", ".product-card", ".card", ".catalog-item"}

MkNameCeiling == 120

\* source = parent_a['href'] if parent_a else url, joined when it starts with '/'
MkSource(el, url) ==
  LET source == IF el.parent # None THEN el.parent ELSE url
  IN IF source # <<>> /\ StartsWithSlash(source)
     THEN urljoin(MkBase, source)
     ELSE source

MkSelRow(el, url) ==
  LET txt == clean_text(el.text)
  IN IF txt # <<>> /\ Len(txt) < MkNameCeiling
     THEN <<Row("", MkBrand, txt, MkSource(el, url))>>
     ELSE <<>>

\* for sel in sel_candidates: for el in s.select(sel): ...
MkSelRows(page, url) ==
  Concat([i \in 1..Len(sel_candidates) |->
    LET els == Select(page, {sel_candidates[i]})
    IN Concat([j \in 1..Len(els) |-> MkSelRow(els[j], url)])])

MkCardRow(card, url) ==
  LET text == clean_text(card.text)
      name == IF text # <<>> THEN FirstLine(text) ELSE <<>>
  IN IF name # <<>> /\ Len(name) < MkNameCeiling
     THEN <<Row("", MkBrand, name, url)>>
     ELSE <<>>

\* for card in s.select('.product, .product-card, .card, .catalog-item'): ...
MkCardRows(page, url) ==
  LET cards == Select(page, MkCardSelectors)
  IN Concat([j \in 1..Len(cards) |-> MkCardRow(cards[j], url)])

\* the rows one crawled page appends
MkPageRows(page, url) == MkSelRows(page, url) \o MkCardRows(page, url)

\* for r in unique: r['category'] = ...
MkCategorize(unique) ==
  [i \in 1..Len(unique) |-> [unique[i] EXCEPT !.category = classify(unique[i].model)]]

(***************************************************************************)
(* fetch_ubiquiti                                                          *)
(***************************************************************************)
UbStore == <<"https:", "//", "store.ui.com">>
UbWww == <<"https:", "//", "www.ui.com">>

base_candidates ==
  << UbStore \o <<"/", "collections", "/", "ubiquiti">>,
     UbWww \o <<"/", "collections", "/", "unifi">> >>

candidates ==
  << UbWww \o <<"/", "unifi", "/">>,
     UbWww \o <<"/", "edge", "/">>,
     UbStore \o <<"/", "collections", "/", "all">>,
     UbStore \o <<"/", "collections", "/", "unifi">> >>

RECURSIVE Untried(_, _)
\* for url in ...: if url in tried: continue; tried.add(url)
Untried(urls, tried) ==
  IF urls = <<>> THEN <<>>
  ELSE IF Head(urls) \in tried THEN Untried(Tail(urls), tried)
       ELSE <<Head(urls)>> \o Untried(Tail(urls), tried \cup {Head(urls)})

UbUrls == Untried(candidates \o base_candidates, {})

UbSelectors ==
  <<".product-card__title", ".product-title", "h2", "h3", ".product-title a", ".card-title">>

UbNameCeiling == 200

UbSelRow(el, url) ==
  LET name == clean_text(el.text)
  IN IF name # <<>> /\ Len(name) < UbNameCeiling
     THEN <<Row("ap", UbBrand, name, url)>>
     ELSE <<>>

UbSelRows(page, url) ==
  Concat([i \in 1..Len(UbSelectors) |->
    LET els == Select(page, {UbSelectors[i]})
    IN Concat([j \in 1..Len(els) |-> UbSelRow(els[j], url)])])

UbAnchorRow(a, url) ==
  LET href == a.href
      name == clean_text(a.text)
  IN IF /\ \/ HrefHasWord(href, "unifi")
              \/ HrefHasWord(href, "airmax")
              \/ HrefHasWord(href, "edge")
              \/ HrefHasSlashProduct(href)
        /\ name # <<>>
     THEN <<Row("ap", UbBrand, name, urljoin(url, href))>>
     ELSE <<>>

UbAnchorRows(page, url) ==
  LET as == Anchors(page)
  IN Concat([j \in 1..Len(as) |-> UbAnchorRow(as[j], url)])

UbPageRows(page, url) == UbSelRows(page, url) \o UbAnchorRows(page, url)

(***************************************************************************)
(* fetch_cambium and fetch_mimosa                                          *)
(***************************************************************************)
CbBase == <<"https:", "//", "www.cambiumnetworks.com">>
CbStartUrl == CbBase \o <<"/", "products", "/">>
CbFinderUrl == CbBase \o <<"/", "product-finder", "/">>
CbFinderSelectors == {".product-listing", ".pf-result", ".product-card", ".product"}

MmBase == <<"https:", "//", "mimosa.co">>
MmStartUrl == MmBase \o <<"/", "products">>
MmCategories == <<"accessories", "antennas", "backhaul", "access-points", "clients">>
MmCategoryUrl(cat) == MmBase \o <<"/", "products", "/", cat>>

\* an anchor to /products/<slug> with a non-empty text gives one 'ptp' row
ProductLinkRow(a, brand, base) ==
  LET href == a.href
      name == clean_text(a.text)
  IN IF StartsWithProducts(href) /\ CountSlash(href) >= 2 /\ name # <<>>
     THEN <<Row("ptp", brand, name, urljoin(base, href))>>
     ELSE <<>>

\* for a in s.select('a[href]'): ...
ProductLinkRows(page, brand, base) ==
  LET as == Anchors(page)
  IN Concat([j \in 1..Len(as) |-> ProductLinkRow(as[j], brand, base)])

CbFinderRow(el) ==
  LET txt == clean_text(el.text)
  IN IF txt # <<>>
     THEN <<Row("ptp", CbBrand, FirstLine(txt), CbFinderUrl)>>
     ELSE <<>>

CbFinderRows(page) ==
  LET els == Select(page, CbFinderSelectors)
  IN Concat([j \in 1..Len(els) |-> CbFinderRow(els[j])])

(***************************************************************************)
(* The modelled web: the pages a fetch can return.                         *)
(***************************************************************************)
PageOf(id) ==
  CASE id = "mk_main" ->
         << El({}, T_CRS326, None, <<"/", "product", "/", "crs326">>),
            El({}, T_About, None, <<"about">>) >>
    [] id = "mkA" ->
         << El({"h3"}, T_CRS326, <<"/", "product", "/", "crs326">>, None),
            El({"h3"}, T_crs326, <<"/", "product", "/", "crs326-dup">>, None),
            El({".card"}, <<"\n", " ">> \o T_hAP_ac \o <<" ", "\n">>, None, None) >>
    [] id = "mkB" ->
         << El({"h4"}, <<" ", "\n", "\t">>, None, None),
            El({".title"}, T_Long, None, None),
            El({".product-card"}, T_hAP_ac2 \o <<" ", " ">>, None, None) >>
    [] id = "mkC" ->
         << El({"h4", ".title"}, T_wAP, <<"product", "/", "wap">>, None),
            El({".product-name"}, T_SG, None, None) >>
    [] id = "ubA" ->
         << El({"h2"}, T_UniFi_AP, None, None),
            El({}, T_unifi_ap, None, <<"/", "products", "/", "unifi-ap">>),
            El({}, T_About, None, <<"about">>),
            El({}, <<" ">>, None, <<"/", "product", "/", "x">>) >>
    [] id = "ubB" ->
         << El({".card-title"}, T_ER, <<"/", "edge", "/", "er">>, None),
            El({}, T_ER, None, <<"EdgeRouter", "/", "er">>),
            El({"h3"}, T_unifi_ap, None, None) >>
    [] id = "cb_main" ->
         << El({}, T_PTP, None, <<"/", "products", "/", "ptp670">>),
            El({}, T_About, None, <<"/", "products">>),
            El({}, <<"\n">>, None, <<"/", "products", "/", "x">>) >>
    [] id = "cb_pf" ->
         << El({".product"}, T_ePMP \o <<"\n", "x">>, None, None),
            El({".pf-result"}, lower(T_PTP), None, None),
            El({".product-listing"}, <<"\t">>, None, None) >>
    [] id = "mm_main" ->
         << El({}, T_C5, None, <<"/", "products", "/", "c5">>),
            El({}, T_About, None, <<"https:", "//", "mimosa.co", "/", "about">>) >>
    [] id = "mmA" ->
         << El({}, T_B5, None, <<"/", "products", "/", "b5">>),
            El({}, T_c5, None, <<"/", "products", "/", "c5c">>),
            El({}, <<>>, None, <<"/", "products", "/", "x">>) >>
    [] OTHER -> <<>>

Served(ids) == {Resp("ok", id) : id \in ids} \cup Failures

MkMainResponses == Served({"mk_main", "empty"})
MkPageResponses == Served({"mkA", "mkB", "mkC"})
UbPageResponses == Served({"ubA", "ubB"})
CbMainResponses == Served({"cb_main"})
CbFinderResponses == Served({"cb_pf"})
MmMainResponses == Served({"mm_main"})
MmPageResponses == Served({"mmA"})

(***************************************************************************)
(* State.                                                                  *)
(***************************************************************************)
VARIABLES
  pc,            \* position of the program
  use_selenium,  \* args.use_selenium
  SELENIUM_OK,   \* whether the selenium import succeeded
  exit_status,   \* -1 while the process runs, then its exit status
  net,           \* whether any page has been requested
  driver,        \* "none", "open" or "quit"
  rows_all,      \* run_all's accumulated rows
  rows,          \* the running adapter's rows
  urls,          \* the pages the running adapter's loop iterates over
  idx,           \* 1-based position in urls
  log,           \* per page of the running loop: url, outcome, rows appended
  ret,           \* how the last adapter call ended: returned (rows) or raised
  result,        \* per adapter: pending, ok (with the rows returned) or failed
  unique,        \* run_all's globally deduplicated rows
  files,         \* file name -> CSV records written
  cl_model,      \* the classifier's input when it is run on its own
  cl_category    \* and its output

vars ==
  <<pc, use_selenium, SELENIUM_OK, exit_status, net, driver, rows_all, rows,
    urls, idx, log, ret, result, unique, files, cl_model, cl_category>>

Adapters == <<"MikroTik", "Ubiquiti", "Cambium", "Mimosa">>

BrandOf(a) ==
  CASE a = "MikroTik" -> MkBrand
    [] a = "Ubiquiti" -> UbBrand
    [] a = "Cambium" -> CbBrand
    [] a = "Mimosa" -> MmBrand

Pending == [status |-> "pending", rows |-> <<>>]

NoRet == [status |-> "none", rows |-> <<>>]

\* the first MaxPages pages of a page list
Crawl(list) == SubSeq(list, 1, Min(Len(list), MaxPages))

\* rows_all.extend(xs), written the wrong way round
ExtendFront(all, xs) == xs \o all

\* rows_all.extend(xs)
Extend(all, xs) == all \o xs

\* a handler that throws the collected rows away when a page fails
TryPageReset(rs, resp, new) == IF resp.status = "ok" THEN rs \o new ELSE <<>>

\* try: <fetch, parse, append new> except Exception: skip
TryPage(rs, resp, new) == IF resp.status = "ok" THEN rs \o new ELSE rs

LogEntry(url, resp, old, now) ==
  [url |-> url, status |-> IF resp.status = "ok" THEN "ok" ELSE "skip",
   page |-> resp.page,
   added |-> SubSeq(now, Len(old) + 1, Len(now))]

\* no exit test at start-up
MainNeverExits(use, ok) == FALSE

\* if args.use_selenium and not SELENIUM_OK
MainExits(use, ok) == use /\ ~ok

InitCommon ==
  /\ exit_status = -1
  /\ net = FALSE
  /\ driver = "none"
  /\ rows_all = <<>>
  /\ rows = <<>>
  /\ urls = <<>>
  /\ idx = 1
  /\ log = <<>>
  /\ ret = NoRet
  /\ result = [a \in {Adapters[i] : i \in 1..4} |-> Pending]
  /\ unique = <<>>
  /\ files = <<>>

Init ==
  /\ pc = "main"
  /\ use_selenium \in BOOLEAN
  /\ SELENIUM_OK \in BOOLEAN
  /\ cl_model = <<>>
  /\ cl_category = ""
  /\ InitCommon

\* the __main__ block
Main ==
  /\ pc = "main"
  /\ IF MainExits(use_selenium, SELENIUM_OK)
     THEN pc' = "exited" /\ exit_status' = 1
     ELSE pc' = "mk_start" /\ UNCHANGED exit_status
  /\ UNCHANGED <<use_selenium, SELENIUM_OK, net, driver, rows_all, rows, urls,
                 idx, log, ret, result, unique, files, cl_model, cl_category>>

\* the adapter raised: run_all's except clause prints and goes on
Failed(a, next) ==
  /\ ret' = [status |-> "raised", rows |-> <<>>]
  /\ result' = [result EXCEPT ![a] = [status |-> "failed", rows |-> <<>>]]
  /\ pc' = next
  /\ UNCHANGED rows_all

\* the adapter returned rs: run_all extends rows_all
Returned(a, rs, next) ==
  /\ ret' = [status |-> "returned", rows |-> rs]
  /\ result' = [result EXCEPT ![a] = [status |-> "ok", rows |-> rs]]
  /\ rows_all' = Extend(rows_all, rs)
  /\ pc' = next

\* the adapter is running
Running(next) ==
  /\ ret' = NoRet
  /\ pc' = next
  /\ UNCHANGED <<result, rows_all>>

Frame == UNCHANGED <<use_selenium, SELENIUM_OK, exit_status, unique, files,
                     cl_model, cl_category>>

\* fetch_mikrotik up to the page loop
MkStart ==
  /\ pc = "mk_start"
  /\ net' = TRUE
  /\ \E resp \in MkMainResponses :
       IF resp.status = "ok"
       THEN /\ urls' = Crawl(MkSorted(MkLinks(PageOf(resp.page))))
            /\ Running("mk_loop")
       ELSE /\ urls' = <<>>
            /\ Failed("MikroTik", "ub_start")
  /\ rows' = <<>> /\ idx' = 1 /\ log' = <<>>
  /\ UNCHANGED driver
  /\ Frame

\* one iteration of  for url in tqdm(sorted(links))
MkPage ==
  /\ pc = "mk_loop" /\ idx <= Len(urls)
  /\ \E resp \in MkPageResponses :
       LET now == TryPage(rows, resp, MkPageRows(PageOf(resp.page), urls[idx]))
       IN /\ rows' = now
          /\ log' = Append(log, LogEntry(urls[idx], resp, rows, now))
  /\ idx' = idx + 1
  /\ UNCHANGED <<pc, net, driver, rows_all, urls, ret, result>>
  /\ Frame

\* dedupe, categorize and return to run_all
MkFinish ==
  /\ pc = "mk_loop" /\ idx > Len(urls)
  /\ Returned("MikroTik", MkCategorize(dedupe(rows)), "ub_start")
  /\ UNCHANGED <<net, driver, rows, urls, idx, log>>
  /\ Frame

\* run_all's Ubiquiti block up to the page loop of fetch_ubiquiti
UbStart ==
  /\ pc = "ub_start"
  /\ IF use_selenium /\ SELENIUM_OK
     THEN \E started \in BOOLEAN :
            IF started
            THEN /\ driver' = "open"
                 /\ urls' = Crawl(UbUrls)
                 /\ Running("ub_loop")
            ELSE /\ UNCHANGED driver
                 /\ urls' = <<>>
                 /\ Failed("Ubiquiti", "cb_start")
     ELSE /\ UNCHANGED driver
          /\ urls' = Crawl(UbUrls)
          /\ Running("ub_loop")
  /\ rows' = <<>> /\ idx' = 1 /\ log' = <<>>
  /\ UNCHANGED net
  /\ Frame

\* one iteration of  for url in candidates + base_candidates
UbPage ==
  /\ pc = "ub_loop" /\ idx <= Len(urls)
  /\ net' = TRUE
  /\ \E resp \in UbPageResponses :
       LET now == TryPage(rows, resp, UbPageRows(PageOf(resp.page), urls[idx]))
       IN /\ rows' = now
          /\ log' = Append(log, LogEntry(urls[idx], resp, rows, now))
  /\ idx' = idx + 1
  /\ UNCHANGED <<pc, driver, rows_all, urls, ret, result>>
  /\ Frame

\* dedupe and return; run_all quits the driver, then extends rows_all
UbFinish ==
  /\ pc = "ub_loop" /\ idx > Len(urls)
  /\ IF driver = "open"
     THEN \E quit \in BOOLEAN :
            IF quit
            THEN driver' = "quit" /\ Returned("Ubiquiti", dedupe(rows), "cb_start")
            ELSE /\ UNCHANGED <<driver, rows_all>>
                 /\ ret' = [status |-> "returned", rows |-> dedupe(rows)]
                 /\ result' = [result EXCEPT
                                 !["Ubiquiti"] = [status |-> "failed", rows |-> <<>>]]
                 /\ pc' = "cb_start"
     ELSE UNCHANGED driver /\ Returned("Ubiquiti", dedupe(rows), "cb_start")
  /\ UNCHANGED <<net, rows, urls, idx, log>>
  /\ Frame

\* fetch_cambium: the /products/ page
CbStart ==
  /\ pc = "cb_start"
  /\ net' = TRUE
  /\ \E resp \in CbMainResponses :
       IF resp.status = "ok"
       THEN /\ rows' = ProductLinkRows(PageOf(resp.page), CbBrand, CbBase)
            /\ urls' = <<CbFinderUrl>>
            /\ Running("cb_finder")
       ELSE /\ rows' = <<>>
            /\ urls' = <<>>
            /\ Failed("Cambium", "mm_start")
  /\ idx' = 1 /\ log' = <<>>
  /\ UNCHANGED driver
  /\ Frame

\* fetch_cambium: the product finder, dedupe and return
CbFinder ==
  /\ pc = "cb_finder"
  /\ \E resp \in CbFinderResponses :
       LET now == TryPage(rows, resp, CbFinderRows(PageOf(resp.page)))
       IN /\ rows' = now
          /\ log' = Append(log, LogEntry(CbFinderUrl, resp, rows, now))
          /\ Returned("Cambium", dedupe(now), "mm_start")
  /\ idx' = idx + 1
  /\ UNCHANGED <<net, driver, urls>>
  /\ Frame

\* fetch_mimosa: the /products page
MmStart ==
  /\ pc = "mm_start"
  /\ net' = TRUE
  /\ \E resp \in MmMainResponses :
       IF resp.status = "ok"
       THEN /\ rows' = ProductLinkRows(PageOf(resp.page), MmBrand, MmBase)
            /\ urls' = Crawl([i \in 1..Len(MmCategories) |->
                                 MmCategoryUrl(MmCategories[i])])
            /\ Running("mm_loop")
       ELSE /\ rows' = <<>>
            /\ urls' = <<>>
            /\ Failed("Mimosa", "dedup")
  /\ idx' = 1 /\ log' = <<>>
  /\ UNCHANGED driver
  /\ Frame

\* one iteration of  for cat in [...]
MmPage ==
  /\ pc = "mm_loop" /\ idx <= Len(urls)
  /\ \E resp \in MmPageResponses :
       LET now == TryPage(rows, resp, ProductLinkRows(PageOf(resp.page), MmBrand, MmBase))
       IN /\ rows' = now
          /\ log' = Append(log, LogEntry(urls[idx], resp, rows, now))
  /\ idx' = idx + 1
  /\ UNCHANGED <<pc, net, driver, rows_all, urls, ret, result>>
  /\ Frame

MmFinish ==
  /\ pc = "mm_loop" /\ idx > Len(urls)
  /\ Returned("Mimosa", dedupe(rows), "dedup")
  /\ UNCHANGED <<net, driver, rows, urls, idx, log>>
  /\ Frame

(***************************************************************************)
(* Export.  All files of one run carry the same timestamp, which the file  *)
(* names below leave out.                                                  *)
(***************************************************************************)
AllName == <<"a","l","l","_","p","r","o","d","u","c","t","s">>

\* the four columns, in order, of one CSV record
CsvRecord(r) == <<r.category, r.brand, r.model, r.source_url>>

CsvOf(rs) == [i \in 1..Len(rs) |-> CsvRecord(rs[i])]

\* the brands in the order of Python's string comparison, as groupby sorts them
BrandOrder == <<CbBrand, MkBrand, MmBrand, UbBrand>>

\* re.sub(r'[^A-Za-z0-9]+', '_', brand)
SubNonAlnum(s) ==
  LET marked == [i \in 1..Len(s) |->
                   [c |-> IF s[i] \notin Alnum THEN "_" ELSE s[i],
                    keep |-> \/ s[i] \in Alnum
                             \/ i = 1
                             \/ s[i - 1] \in Alnum]]
      kept == SelectSeq(marked, LAMBDA m : m.keep)
  IN [i \in 1..Len(kept) |-> kept[i].c]

\* a file name made of the brand's initial only
BrandFileInitial(brand) == lower(SubSeq(brand, 1, 1))

\* bn = re.sub(...).strip('_').lower()
BrandFile(brand) == lower(strip(SubNonAlnum(brand), {"_"}))

\* the rows of one group of df.groupby('brand')
Group(rs, brand) == SelectSeq(rs, LAMBDA r : r.brand = brand)

RECURSIVE WriteBrands(_, _, _)
\* for brand, g in df.groupby('brand'): g.to_csv(...)
WriteBrands(fs, brands, rs) ==
  IF brands = <<>> THEN fs
  ELSE LET b == Head(brands)
           name == BrandFile(b)
           rest == [n \in DOMAIN fs \ {name} |-> fs[n]]
       IN IF Group(rs, b) = <<>>
          THEN WriteBrands(fs, Tail(brands), rs)
          ELSE WriteBrands(rest @@ (name :> CsvOf(Group(rs, b))), Tail(brands), rs)

\* run_all: global dedup and save_to_csv
DedupAndSave ==
  /\ pc = "dedup"
  /\ unique' = global_dedupe(rows_all)
  /\ files' = files @@ (AllName :> CsvOf(unique'))
  /\ pc' = "save_brands"
  /\ rows' = <<>> /\ urls' = <<>> /\ idx' = 1 /\ log' = <<>> /\ ret' = NoRet
  /\ UNCHANGED <<use_selenium, SELENIUM_OK, exit_status, net, driver, rows_all,
                 result, cl_model, cl_category>>

\* run_all: the per-brand files; groupby('brand') on a frame without columns
\* raises KeyError, which nothing catches
SaveBrands ==
  /\ pc = "save_brands"
  /\ IF unique = <<>>
     THEN pc' = "crashed" /\ exit_status' = 1 /\ UNCHANGED files
     ELSE /\ files' = WriteBrands(files, BrandOrder, unique)
          /\ pc' = "done"
          /\ exit_status' = 0
  /\ UNCHANGED <<use_selenium, SELENIUM_OK, net, driver, rows_all, rows, urls,
                 idx, log, ret, result, unique, cl_model, cl_category>>

Next ==
  \/ Main
  \/ MkStart \/ MkPage \/ MkFinish
  \/ UbStart \/ UbPage \/ UbFinish
  \/ CbStart \/ CbFinder
  \/ MmStart \/ MmPage \/ MmFinish
  \/ DedupAndSave \/ SaveBrands

Spec == Init /\ [][Next]_vars

(***************************************************************************)
(* The category guess on its own, over all short names of an alphabet that *)
(* spells keywords of each set, in both cases.                             *)
(***************************************************************************)
ClAlphabet == {"s", "g", "a", "p", "w", "A", "c", "5"}

ClNames == UNION {[1..k -> ClAlphabet] : k \in 1..MaxNameLen}

InitClassify ==
  /\ pc = "classify"
  /\ use_selenium = FALSE
  /\ SELENIUM_OK = FALSE
  /\ cl_model \in ClNames
  /\ cl_category = ""
  /\ InitCommon

Classify ==
  /\ pc = "classify"
  /\ cl_category' = classify(cl_model)
  /\ pc' = "classified"
  /\ UNCHANGED <<use_selenium, SELENIUM_OK, exit_status, net, driver, rows_all,
                 rows, urls, idx, log, ret, result, unique, files, cl_model>>

NextClassify == Classify

SpecClassify == InitClassify /\ [][NextClassify]_vars

(***************************************************************************)
(* Properties.                                                             *)
(***************************************************************************)
RowsOf(f) == {f[i] : i \in 1..Len(f)}

AdapterSet == {Adapters[i] : i \in 1..Len(Adapters)}

\* the adapter-local dedup identity, as the specification words it
ClaimKey(r) == <<lower(r.brand), lower(r.model)>>

\* the rows the adapter whose loop the log belongs to derives from one page
DerivedRows(e) ==
  IF e.status # "ok" THEN <<>>
  ELSE CASE pc \in {"mk_loop", "ub_start"} -> MkPageRows(PageOf(e.page), e.url)
         [] pc \in {"ub_loop", "cb_start"} -> UbPageRows(PageOf(e.page), e.url)
         [] pc \in {"mm_loop", "dedup"} ->
              ProductLinkRows(PageOf(e.page), MmBrand, MmBase)
         [] OTHER -> CbFinderRows(PageOf(e.page))

\* a page loop has run to its end
LoopDone == pc \in {"ub_start", "cb_start", "dedup"} /\ urls # <<>>

Exported == pc \in {"save_brands", "done", "crashed"}

\* C1: whichever adapters raise, run_all does not abort; it exports the
\* deduplicated rows of the adapters that did not fail
C1_RunAllSurvivesAdapterFailures ==
  /\ pc # "crashed"
  /\ pc = "done" =>
       /\ \A a \in AdapterSet : result[a].status \in {"ok", "failed"}
       /\ files[AllName] =
            CsvOf(global_dedupe(Concat([i \in 1..Len(Adapters) |->
                                          result[Adapters[i]].rows])))

\* C2: a page of a page loop that fails to fetch or parse is skipped; the
\* loop visits every page, the adapter returns, and every row derived from a
\* page that was fetched is in the result up to the adapter-local dedup
C2_FailedPageIsSkipped ==
  LoopDone =>
    /\ ret.status = "returned"
    /\ Len(log) = Len(urls)
    /\ \A i \in 1..Len(log) :
         \A r \in RowsOf(DerivedRows(log[i])) :
           \E k \in 1..Len(ret.rows) : ClaimKey(ret.rows[k]) = ClaimKey(r)

C2_Witness ==
  /\ pc = "ub_start" /\ ret.status = "returned"
  /\ \E i, j \in 1..Len(log) :
       /\ log[i].status = "skip"
       /\ log[j].status = "ok" /\ log[j].added # <<>>

\* C3: with --use-selenium and no selenium the process exits with status 1
\* before any page is requested and before any adapter runs
C3_MissingSeleniumIsFatal ==
  (use_selenium /\ ~SELENIUM_OK) =>
    /\ pc \in {"main", "exited"}
    /\ ~net
    /\ driver = "none"
    /\ \A a \in AdapterSet : result[a].status = "pending"
    /\ pc = "exited" => exit_status = 1
    /\ pc = "main" => exit_status = -1

C3_Witness == pc = "exited" /\ exit_status = 1 /\ use_selenium /\ ~SELENIUM_OK /\ ~net

SameRow(a, b) ==
  a.brand = b.brand /\ a.model = b.model /\ a.source_url = b.source_url

\* out is the rows of in that are the first of their key, in in's order
FirstWins(out, in, Key(_)) ==
  LET F == {j \in 1..Len(in) : \A k \in 1..(j - 1) : Key(in[k]) # Key(in[j])}
  IN /\ Len(out) = Cardinality(F)
     /\ \A i \in 1..Len(out) :
          \E j \in F : /\ SameRow(out[i], in[j])
                       /\ Cardinality({k \in F : k < j}) = i - 1

\* C4: each dedup pass keeps, in input order, exactly the first row of every
\* key; rows differing only in the case of the model collapse to the first
C4_DedupFirstWins ==
  /\ ret.status = "returned" => FirstWins(ret.rows, rows, ClaimKey)
  /\ Exported =>
       /\ FirstWins(unique, rows_all, GlobalKey)
       /\ \A i, j \in 1..Len(unique) :
            ClaimKey(unique[i]) = ClaimKey(unique[j]) => i = j

C4_Witness ==
  /\ ret.status = "returned"
  /\ \E j \in 1..Len(rows) : rows[j].model = T_crs326
  /\ \A k \in 1..Len(ret.rows) : ret.rows[k].model # T_crs326
  /\ \E i \in 1..Len(ret.rows) :
       /\ ret.rows[i].model = T_CRS326
       /\ ret.rows[i].category = "switch"
       /\ ret.rows[i].source_url = MkBase \o <<"/", "product", "/", "crs326">>

AdapterRank(brand) == CHOOSE i \in 1..Len(Adapters) : BrandOf(Adapters[i]) = brand

\* C5: the export lists MikroTik, Ubiquiti, Cambium, Mimosa rows in that
\* order; rows of one adapter keep the order the adapter returned them in,
\* which is the order of the pages that produced them
C5_ExportInAdapterAndPageOrder ==
  /\ Exported =>
       LET f == files[AllName]
       IN \A i, j \in 1..Len(f) :
            i < j =>
              /\ AdapterRank(f[i][2]) <= AdapterRank(f[j][2])
              /\ f[i][2] = f[j][2] =>
                   LET rs == result[Adapters[AdapterRank(f[i][2])]].rows
                   IN \E k, l \in 1..Len(rs) :
                        k < l /\ CsvRecord(rs[k]) = f[i] /\ CsvRecord(rs[l]) = f[j]
  /\ pc \in {"mk_loop", "ub_start", "ub_loop", "cb_start", "mm_loop", "dedup"} =>
       LET paged == Concat([i \in 1..Len(log) |-> DerivedRows(log[i])])
       IN /\ Len(paged) <= Len(rows)
          /\ SubSeq(rows, Len(rows) - Len(paged) + 1, Len(rows)) = paged

C5_Witness ==
  /\ pc = "done"
  /\ Cardinality({files[AllName][i][2] : i \in 1..Len(files[AllName])}) >= 3
  /\ \E i, j \in 1..Len(files[AllName]) :
       i < j /\ files[AllName][i][2] = files[AllName][j][2]

\* any(k.lower() in m.lower() for k in kws)
AnyInNoCase(model, kws) ==
  \E i \in 1..Len(kws) : Contains(lower(model), lower(kws[i]))

\* the category of a name under case-insensitive matching in priority order
IntendedCategory(model) ==
  IF AnyInNoCase(model, SwitchKeywords) THEN "switch"
  ELSE IF AnyInNoCase(model, ApKeywords) THEN "ap"
  ELSE IF AnyInNoCase(model, PtpKeywords) THEN "ptp"
  ELSE "router"

\* C6: the category is the label of the first keyword set, in the order
\* switch, ap, ptp, with a keyword in the name regardless of case, and
\* 'router' if there is none; 'hAP ac2' with a superscript two is 'ap'
C6_CategoryByPriority ==
  /\ pc = "classified" =>
       /\ cl_category \in {"switch", "ap", "ptp", "router"}
       /\ cl_category = IntendedCategory(cl_model)
  /\ classify(T_hAP_ac2) = "ap"

C6_Witness ==
  /\ pc = "classified"
  /\ cl_model = <<"s", "g", "A", "p">>
  /\ cl_category = "switch"

BrandFiles == DOMAIN files \ {AllName}

\* C7: the per-brand files partition the all-products file
C7_BrandFilesPartitionExport ==
  pc \in {"done", "crashed"} =>
    LET all == files[AllName]
    IN /\ \A n \in BrandFiles :
            /\ \A i, j \in 1..Len(files[n]) : files[n][i][2] = files[n][j][2]
            /\ RowsOf(files[n]) \subseteq RowsOf(all)
       /\ \A n, m \in BrandFiles :
            n # m => \A i \in 1..Len(files[n]) :
                       \A j \in 1..Len(files[m]) : files[n][i][2] # files[m][j][2]
       /\ \A r \in RowsOf(all) :
            Cardinality({p \in BrandFiles \X (1..Len(all)) :
                           p[2] <= Len(files[p[1]]) /\ files[p[1]][p[2]] = r}) = 1

C7_Witness ==
  /\ pc = "done"
  /\ Cardinality(BrandFiles) >= 3
  /\ \E n \in BrandFiles : Len(files[n]) >= 2

\* a text with at least one character that is not whitespace
HasVisibleChar(m) == \E i \in 1..Len(m) : m[i] \notin Whitespace

\* C8: no row an adapter collects or returns, and no row run_all keeps or
\* writes, has an empty or all-whitespace model
C8_NoEmptyModel ==
  /\ \A r \in RowsOf(rows) \cup RowsOf(ret.rows) \cup RowsOf(rows_all)
                \cup RowsOf(unique) :
       HasVisibleChar(r.model)
  /\ \A n \in DOMAIN files :
       \A i \in 1..Len(files[n]) : HasVisibleChar(files[n][i][3])

C8_Witness ==
  /\ pc = "ub_start" /\ ret.status = "returned" /\ ret.rows # <<>>
  /\ \E i \in 1..Len(log) : log[i].status = "ok" /\ log[i].page = "mkB"

\* the source of a selector match as the specification words it
IntendedSource(el, url) ==
  IF el.parent # None THEN urljoin(MkBase, el.parent) ELSE url

IntendedSources(page, url) ==
  Concat([i \in 1..Len(sel_candidates) |->
    LET els == Select(page, {sel_candidates[i]})
    IN Concat([j \in 1..Len(els) |->
         IF MkSelRow(els[j], url) = <<>> THEN <<>>
         ELSE <<IntendedSource(els[j], url)>>])])

\* C9: every row's source_url is absolute; for a selector match inside an
\* anchor it is the anchor's href resolved against the base, whatever the
\* form of the href, and otherwise the page's URL
C9_SourceUrlAbsolute ==
  /\ \A r \in RowsOf(rows) \cup RowsOf(rows_all) : HasScheme(r.source_url)
  /\ pc \in {"mk_loop", "ub_start"} =>
       \A i \in 1..Len(log) :
         log[i].status = "ok" =>
           LET want == IntendedSources(PageOf(log[i].page), log[i].url)
           IN /\ Len(want) <= Len(log[i].added)
              /\ \A k \in 1..Len(want) : log[i].added[k].source_url = want[k]

\* C10: a page of fetch_mikrotik on which a selector matched adds no row
\* from the card heuristic
C10_CardsOnlyAsFallback ==
  pc \in {"mk_loop", "ub_start"} =>
    \A i \in 1..Len(log) :
      (log[i].status = "ok" /\ MkSelRows(PageOf(log[i].page), log[i].url) # <<>>)
        => log[i].added = MkSelRows(PageOf(log[i].page), log[i].url)

====
